---------------------------- MODULE Spec2Model ----------------------------
(***************************************************************************)
(* Model of planet_sim02/main.py: CelestialBody and PhysicsEngine, the     *)
(* gravitational integrator, and SimulationController, which drives it     *)
(* from mouse and key events and advances it once per frame.               *)
(*                                                                         *)
(* Python floats are modelled as binary floating-point numbers m * 2^e     *)
(* with a Prec-bit mantissa, an unbounded exponent and round-to-nearest-   *)
(* even after every arithmetic operation, as IEEE-754 doubles do with 53   *)
(* bits.  A 2-vector (numpy array of dtype float) is a pair of floats and  *)
(* numpy's elementwise operators are applied component by component.       *)
(***************************************************************************)
EXTENDS Integers, Sequences, FiniteSets, TLC

\* ------------------------------------------------------------------------
\* Bounds of the model
\* ------------------------------------------------------------------------

\* Mantissa width of the modelled floats (53 in the program's doubles).
Prec == 8

\* Largest number of engine operations in one behaviour of Spec.
MaxOps == 4

\* Largest length of PhysicsEngine.bodies.
MaxBodies == 4

\* Largest number of engine operations in one behaviour of SpecSteps.
MaxStepOps == 4

\* Largest number of engine operations in one behaviour of SpecTime.
MaxTimeOps == 7

\* Largest length of PhysicsEngine.bodies in SpecTime.
MaxTimeBodies == 2

\* Number of updates in one behaviour of SpecTraj.
TrajSteps == 502

\* Largest number of events in one behaviour of SpecCtl.
MaxCtlOps == 3

\* Largest number of events in one behaviour of SpecInput.
MaxInputOps == 4

\* ------------------------------------------------------------------------
\* Floating-point arithmetic (the dtype=float of main.py line 33)
\* ------------------------------------------------------------------------

Pow2(n) == 2 ^ n

Abs(x) == IF x < 0 THEN -x ELSE x

Sgn(x) == IF x < 0 THEN -1 ELSE IF x > 0 THEN 1 ELSE 0

RECURSIVE BitLen(_)
\* Number of binary digits of the natural number n.
BitLen(n) == IF n = 0 THEN 0 ELSE 1 + BitLen(n \div 2)

FZero == [m |-> 0, e |-> 0]

\* The float nearest to the exact value m * 2^e, ties to the even mantissa.
\* The result is canonical: zero is FZero, otherwise 2^(Prec-1) <= |m| < 2^Prec.
FRound(m, e) ==
    IF m = 0 THEN FZero
    ELSE LET a == Abs(m)
             k == BitLen(a) - Prec
         IN  IF k <= 0
             THEN [m |-> m * Pow2(-k), e |-> e + k]
             ELSE LET q    == a \div Pow2(k)
                      r    == a % Pow2(k)
                      half == Pow2(k - 1)
                      up   == (r > half) \/ (r = half /\ q % 2 = 1)
                      q1   == IF up THEN q + 1 ELSE q
                  IN  IF q1 = Pow2(Prec)
                      THEN [m |-> Sgn(m) * Pow2(Prec - 1), e |-> e + k + 1]
                      ELSE [m |-> Sgn(m) * q1, e |-> e + k]

FNeg(x) == [m |-> -x.m, e |-> x.e]

\* x + y, correctly rounded.
FAdd(x, y) ==
    IF x.m = 0 THEN y
    ELSE IF y.m = 0 THEN x
    ELSE IF x.e - y.e > Prec + 2 THEN x
    ELSE IF y.e - x.e > Prec + 2 THEN y
    ELSE LET e == IF x.e < y.e THEN x.e ELSE y.e
         IN  FRound(x.m * Pow2(x.e - e) + y.m * Pow2(y.e - e), e)

FSub(x, y) == FAdd(x, FNeg(y))

\* x * y, correctly rounded.
FMul(x, y) == FRound(x.m * y.m, x.e + y.e)

\* x / y for y # 0, correctly rounded: the quotient is taken with Prec + 2
\* extra bits and a sticky bit for the remainder.
FDiv(x, y) ==
    IF x.m = 0 THEN FZero
    ELSE LET n == Abs(x.m) * Pow2(Prec + 2)
             d == Abs(y.m)
             q == n \div d
             s == IF n % d = 0 THEN 0 ELSE 1
         IN  FRound(Sgn(x.m) * Sgn(y.m) * (2 * q + s), x.e - y.e - Prec - 3)

RECURSIVE ISqrtFrom(_, _, _)
\* Largest s in lo..hi with s * s <= n (binary search).
ISqrtFrom(n, lo, hi) ==
    IF lo = hi THEN lo
    ELSE LET mid == (lo + hi + 1) \div 2
         IN  IF mid * mid <= n THEN ISqrtFrom(n, mid, hi)
                               ELSE ISqrtFrom(n, lo, mid - 1)

\* sqrt(x) for x >= 0, correctly rounded.
FSqrt(x) ==
    IF x.m = 0 THEN FZero
    ELSE LET k == IF (x.e - (Prec + 4)) % 2 = 0 THEN Prec + 4 ELSE Prec + 5
             n == x.m * Pow2(k)
             s == ISqrtFrom(n, 0, Pow2(Prec + 3))
             t == IF s * s = n THEN 0 ELSE 1
         IN  FRound(2 * s + t, ((x.e - k) \div 2) - 1)

\* x < y
FLess(x, y) == FSub(x, y).m < 0

\* The float of an integer literal.
FInt(n) == FRound(n, 0)

\* ------------------------------------------------------------------------
\* Decimal literals and float(str)
\* ------------------------------------------------------------------------

\* The nearest 15-bit binary float to m * 2^e, ties to even: the working
\* precision of the decimal conversion, wider than the modelled floats.
RoundWide(m, e) ==
    IF m = 0 THEN FZero
    ELSE LET k == BitLen(m) - 15
         IN  IF k <= 0 THEN [m |-> m, e |-> e]
             ELSE LET q    == m \div Pow2(k)
                      r    == m % Pow2(k)
                      half == Pow2(k - 1)
                      up   == (r > half) \/ (r = half /\ q % 2 = 1)
                  IN  [m |-> IF up THEN q + 1 ELSE q, e |-> e + k]

\* p * 10 and p * p in the working precision.
TimesTen(p) == RoundWide(p.m * 10, p.e)

Squared(p) == RoundWide(p.m * p.m, 2 * p.e)

RECURSIVE PowerOfTen(_)
\* 10^k for k >= 0 in the working precision, by repeated squaring.
PowerOfTen(k) ==
    IF k = 0 THEN [m |-> 1, e |-> 0]
    ELSE IF k % 2 = 1 THEN TimesTen(PowerOfTen(k - 1))
    ELSE Squared(PowerOfTen(k \div 2))

\* The float of the decimal numeral n * 10^k, n >= 0: a float literal of the
\* source or the result of float(str).
Decimal(n, k) ==
    IF n = 0 THEN FZero
    ELSE LET w == RoundWide(n, 0)
             p == PowerOfTen(Abs(k))
         IN  IF k >= 0 THEN FRound(w.m * p.m, w.e + p.e)
             ELSE LET up == 30 - BitLen(w.m)
                      nn == w.m * Pow2(up)
                      q  == nn \div p.m
                      st == IF nn % p.m = 0 THEN 0 ELSE 1
                  IN  FRound(2 * q + st, w.e - up - p.e - 1)

Digits == {"0", "1", "2", "3", "4", "5", "6", "7", "8", "9"}

DigitValue(c) ==
    CASE c = "0" -> 0 [] c = "1" -> 1 [] c = "2" -> 2 [] c = "3" -> 3
      [] c = "4" -> 4 [] c = "5" -> 5 [] c = "6" -> 6 [] c = "7" -> 7
      [] c = "8" -> 8 [] OTHER -> 9

RECURSIVE ScanDigits(_, _)
\* The index after the run of digits of s that starts at index i.
ScanDigits(s, i) ==
    IF i <= Len(s) /\ s[i] \in Digits THEN ScanDigits(s, i + 1) ELSE i

RECURSIVE DigitsValue(_, _, _, _)
\* The number written by the digits s[i], ..., s[j - 1] after the digits
\* that gave acc.
DigitsValue(s, i, j, acc) ==
    IF i >= j THEN acc
    ELSE DigitsValue(s, i + 1, j, 10 * acc + DigitValue(s[i]))

\* At index i of s stands a sign.
SignAt(s, i) == i <= Len(s) /\ s[i] \in {"+", "-"}

\* The index where the digits of the mantissa begin: after the sign, if any.
SignEnd(s) == IF SignAt(s, 1) THEN 2 ELSE 1

\* The index where the fraction digits begin: after the point, if one stands
\* at intEnd.
FracStart(s, intEnd) ==
    IF intEnd <= Len(s) /\ s[intEnd] = "." THEN intEnd + 1 ELSE intEnd

\* An exponent marker stands at fracEnd.
HasExp(s, fracEnd) == fracEnd <= Len(s) /\ s[fracEnd] \in {"e", "E"}

\* The index where the exponent digits begin: after the marker and its sign.
ExpStart(s, fracEnd) ==
    IF SignAt(s, fracEnd + 1) THEN fracEnd + 2 ELSE fracEnd + 1

\* The result of float(s) once s is cut into its parts: integer digits
\* s[i1 .. intEnd - 1], fraction digits s[fracStart .. fracEnd - 1], exponent
\* digits s[expStart .. expEnd - 1].
ParseNumber(s, i1, intEnd, fracStart, fracEnd, expStart, expEnd) ==
    IF /\ (intEnd - i1) + (fracEnd - fracStart) >= 1
       /\ HasExp(s, fracEnd) => expEnd > expStart
       /\ expEnd = Len(s) + 1
    THEN [ok    |-> TRUE,
          value |->
             [Decimal(DigitsValue(s, fracStart, fracEnd,
                                  DigitsValue(s, i1, intEnd, 0)),
                      (IF HasExp(s, fracEnd)
                       THEN (IF s[fracEnd + 1] = "-" THEN -1 ELSE 1)
                               * DigitsValue(s, expStart, expEnd, 0)
                       ELSE 0) - (fracEnd - fracStart))
              EXCEPT !.m = IF s[1] = "-" THEN -@ ELSE @]]
    ELSE [ok |-> FALSE, value |-> FZero]

\* float(s) from the fraction digits on.
ParseExponent(s, i1, intEnd, fracStart, fracEnd) ==
    ParseNumber(s, i1, intEnd, fracStart, fracEnd, ExpStart(s, fracEnd),
                IF HasExp(s, fracEnd)
                THEN ScanDigits(s, ExpStart(s, fracEnd)) ELSE fracEnd)

\* float(s) from the integer digits on.
ParseMantissa(s, i1, intEnd) ==
    ParseExponent(s, i1, intEnd, FracStart(s, intEnd),
                  ScanDigits(s, FracStart(s, intEnd)))

\* float(s) for a string s given as the sequence of its characters:
\* [sign] digits [. [digits]] [e [sign] digits], at least one digit in the
\* mantissa, nothing before or after.  ok is FALSE where float raises
\* ValueError.
ParseFloat(s) == ParseMantissa(s, SignEnd(s), ScanDigits(s, SignEnd(s)))

\* ------------------------------------------------------------------------
\* 2-vectors: numpy arrays of two floats, elementwise operators
\* ------------------------------------------------------------------------

VZero == <<FZero, FZero>>

VAdd(u, v) == <<FAdd(u[1], v[1]), FAdd(u[2], v[2])>>

VSub(u, v) == <<FSub(u[1], v[1]), FSub(u[2], v[2])>>

VNeg(u) == <<FNeg(u[1]), FNeg(u[2])>>

\* vector * scalar
VScale(u, s) == <<FMul(u[1], s), FMul(u[2], s)>>

\* vector / scalar
VDiv(u, s) == <<FDiv(u[1], s), FDiv(u[2], s)>>

\* np.linalg.norm of a 2-vector: sqrt(dot(u, u))
VNorm(u) == FSqrt(FAdd(FMul(u[1], u[1]), FMul(u[2], u[2])))

\* ------------------------------------------------------------------------
\* Program constants
\* ------------------------------------------------------------------------

\* PhysicsEngine.G = 6.67430e-11, given with a 24-bit mantissa:
\* 9618680 * 2^-57 = 6.674300e-11
G == FRound(9618680, -57)

\* The softening distance 1e3 of calculate_gravitational_force.
SofteningDistance == 1000

\* The cap of CelestialBody.trajectory.
TrajectoryCap == 500

\* ------------------------------------------------------------------------
\* CelestialBody
\* ------------------------------------------------------------------------

\* CelestialBody.__init__: acceleration starts at zero, the trajectory empty.
CelestialBody(name, mass, position, velocity) ==
    [name         |-> name,
     mass         |-> mass,
     position     |-> position,
     velocity     |-> velocity,
     acceleration |-> VZero,
     trajectory   |-> <<>>]

\* CelestialBody.apply_force: a = F / m
apply_force(body, force) ==
    [body EXCEPT !.acceleration = VDiv(force, body.mass)]

\* Mutant of AppendCapped: pop() drops the newest entry instead of the oldest.
AppendCappedPopNewest(trajectory, snapshot) ==
    LET t == Append(trajectory, snapshot)
    IN  IF Len(t) > TrajectoryCap THEN SubSeq(t, 1, Len(t) - 1) ELSE t

\* The trajectory after appending a snapshot: the oldest entry is popped
\* when the length exceeds the cap.
AppendCapped(trajectory, snapshot) ==
    LET t == Append(trajectory, snapshot)
    IN  IF Len(t) > TrajectoryCap THEN Tail(t) ELSE t

\* Mutant of CelestialBody_update: explicit Euler, the position is advanced
\* with the velocity the body had before the call.
CelestialBody_update_explicit(body, dt) ==
    LET v == VAdd(body.velocity, VScale(body.acceleration, dt))
        p == VAdd(body.position, VScale(body.velocity, dt))
    IN  [body EXCEPT !.velocity = v,
                     !.position = p,
                     !.trajectory = AppendCapped(body.trajectory, p)]

\* CelestialBody.update: velocity first, then position with the new
\* velocity, then the snapshot.
CelestialBody_update(body, dt) ==
    LET v == VAdd(body.velocity, VScale(body.acceleration, dt))
        p == VAdd(body.position, VScale(v, dt))
    IN  [body EXCEPT !.velocity = v,
                     !.position = p,
                     !.trajectory = AppendCapped(body.trajectory, p)]

\* ------------------------------------------------------------------------
\* PhysicsEngine
\* ------------------------------------------------------------------------

\* direction and distance of calculate_gravitational_force
Direction(body1, body2) == VSub(body2.position, body1.position)

Distance(body1, body2) == VNorm(Direction(body1, body2))

\* Mutant of calculate_gravitational_force: "distance <= 1e3" for
\* "distance < 1e3".
calculate_gravitational_force_le(body1, body2) ==
    LET direction == Direction(body1, body2)
        distance  == VNorm(direction)
    IN  IF ~FLess(FInt(SofteningDistance), distance)
        THEN VZero
        ELSE VScale(VDiv(direction, distance),
                    FDiv(FMul(FMul(G, body1.mass), body2.mass),
                         FMul(distance, distance)))

\* Mutant of calculate_gravitational_force: the direction is taken from
\* body2 to body1, which repels.
calculate_gravitational_force_repel(body1, body2) ==
    LET direction == VSub(body1.position, body2.position)
        distance  == VNorm(direction)
    IN  IF FLess(distance, FInt(SofteningDistance))
        THEN VZero
        ELSE VScale(VDiv(direction, distance),
                    FDiv(FMul(FMul(G, body1.mass), body2.mass),
                         FMul(distance, distance)))

\* Mutant of calculate_gravitational_force: body1.mass is used twice.
calculate_gravitational_force_m1(body1, body2) ==
    LET direction == Direction(body1, body2)
        distance  == VNorm(direction)
    IN  IF FLess(distance, FInt(SofteningDistance))
        THEN VZero
        ELSE VScale(VDiv(direction, distance),
                    FDiv(FMul(FMul(G, body1.mass), body1.mass),
                         FMul(distance, distance)))

\* PhysicsEngine.calculate_gravitational_force: the force on body1 from body2.
calculate_gravitational_force(body1, body2) ==
    LET direction == Direction(body1, body2)
        distance  == VNorm(direction)
    IN  IF FLess(distance, FInt(SofteningDistance))
        THEN VZero
        ELSE LET direction_unit  == VDiv(direction, distance)
                 force_magnitude ==
                     FDiv(FMul(FMul(G, body1.mass), body2.mass),
                          FMul(distance, distance))
             IN  VScale(direction_unit, force_magnitude)

RECURSIVE SumForces(_, _, _, _, _)
\* The inner loop of PhysicsEngine.update for the body at index i: the
\* forces from the entries j..Len(bs) are added to total in list order;
\* entries that are the body itself are skipped (body != other_body
\* compares identities).
SumForces(bs, hp, i, j, total) ==
    IF j > Len(bs) THEN total
    ELSE IF bs[j] # bs[i]
         THEN SumForces(bs, hp, i, j + 1,
                  VAdd(total,
                       calculate_gravitational_force(hp[bs[i]], hp[bs[j]])))
         ELSE SumForces(bs, hp, i, j + 1, total)

\* total_force of the body at index i of the list bs.
TotalForce(bs, hp, i) == SumForces(bs, hp, i, 1, VZero)

\* Mutant of ForceStep: the body is integrated in the loop that accumulates
\* the forces, before the forces of the later bodies are known.
ForceStepFused(bs, hp, i) ==
    [hp EXCEPT ![bs[i]] =
        CelestialBody_update(apply_force(hp[bs[i]], TotalForce(bs, hp, i)),
                             FRound(1000, 0))]

\* One iteration of the first loop of PhysicsEngine.update.
ForceStep(bs, hp, i) ==
    [hp EXCEPT ![bs[i]] = apply_force(hp[bs[i]], TotalForce(bs, hp, i))]

\* One iteration of the second loop of PhysicsEngine.update.
IntegrateStep(bs, hp, i, dt) ==
    [hp EXCEPT ![bs[i]] = CelestialBody_update(hp[bs[i]], dt)]

RECURSIVE ForcePhase(_, _, _)
\* The first loop of PhysicsEngine.update from index i on.
ForcePhase(bs, hp, i) ==
    IF i > Len(bs) THEN hp ELSE ForcePhase(bs, ForceStep(bs, hp, i), i + 1)

RECURSIVE IntegratePhase(_, _, _, _)
\* The second loop of PhysicsEngine.update from index i on.
IntegratePhase(bs, hp, i, dt) ==
    IF i > Len(bs) THEN hp
    ELSE IntegratePhase(bs, IntegrateStep(bs, hp, i, dt), i + 1, dt)

\* The bodies after PhysicsEngine.update(dt) on the list bs.
UpdateBodies(bs, hp, dt) == IntegratePhase(bs, ForcePhase(bs, hp, 1), 1, dt)

\* Mutant of AdvanceTime: "self.time = dt" for "self.time += dt".
AdvanceTimeAssign(t, dt) == dt

\* Mutant of AdvanceTime: "self.time -= dt" for "self.time += dt".
AdvanceTimeBackward(t, dt) == FSub(t, dt)

\* self.time += dt
AdvanceTime(t, dt) == FAdd(t, dt)

\* list.append
add_body(bs, b) == Append(bs, b)

RECURSIVE IndexFrom(_, _, _)
\* The first index i..Len(bs) at which b stands, 0 when there is none.
IndexFrom(bs, b, i) ==
    IF i > Len(bs) THEN 0
    ELSE IF bs[i] = b THEN i ELSE IndexFrom(bs, b, i + 1)

\* Mutant of remove_body: every entry that is the body is removed.
remove_body_all(bs, b) == SelectSeq(bs, LAMBDA x : x # b)

\* PhysicsEngine.remove_body: "if body in self.bodies: self.bodies.remove(body)"
remove_body(bs, b) ==
    LET i == IndexFrom(bs, b, 1)
    IN  IF i = 0 THEN bs
        ELSE SubSeq(bs, 1, i - 1) \o SubSeq(bs, i + 1, Len(bs))

\* Mutant of clear_all: the time is not reset.
clear_all_keep_time(engine) == [bodies |-> <<>>, time |-> engine.time]

\* PhysicsEngine.clear_all on the engine record [bodies, time].
clear_all(engine) == [bodies |-> <<>>, time |-> FZero]

\* ------------------------------------------------------------------------
\* State
\* ------------------------------------------------------------------------

VARIABLES
    bodies,    \* PhysicsEngine.bodies: the list of body identities
    time,      \* PhysicsEngine.time
    heap,      \* the CelestialBody objects the caller created, by identity
    pc,        \* position inside PhysicsEngine.update: idle, forces, integrate
    idx,       \* 1-based index of the running loop of PhysicsEngine.update
    step_dt,   \* the dt argument of the running PhysicsEngine.update
    pre,       \* history: heap when the latest PhysicsEngine.update began
    calls,     \* history: the dt of every update since time was last 0.0
    history,   \* history: per body, its position after each CelestialBody.update
    last,      \* history: the latest operation and the engine before it
    nops,      \* history: number of operations so far
    forces,    \* the latest call of calculate_gravitational_force and its result
    is_paused,         \* SimulationController.is_paused
    simulation_speed,  \* SimulationController.simulation_speed
    input_fields       \* SimulationController.input_fields: value and active

vars == <<bodies, time, heap, pc, idx, step_dt, pre, calls, history, last,
          nops, forces, is_paused, simulation_speed, input_fields>>

\* The state of SimulationController outside its PhysicsEngine.
controller == <<is_paused, simulation_speed, input_fields>>

\* The characters of a string, one per entry.
DefaultFields ==
    [name     |-> <<"P", "l", "a", "n", "e", "t", "a">>,
     mass     |-> <<"5", ".", "9", "7", "2", "e", "2", "4">>,
     distance |-> <<"1", ".", "5", "e", "1", "1">>,
     speed    |-> <<"3", "0", "0", "0", "0">>,
     angle    |-> <<"0">>]

FieldNames == {"name", "mass", "distance", "speed", "angle"}

\* SimulationController.__init__ outside the engine: paused, speed 1, the
\* input fields at their default values and inactive.
InitController ==
    /\ is_paused = TRUE
    /\ simulation_speed = 1
    /\ input_fields =
          [f \in FieldNames |-> [value |-> DefaultFields[f], active |-> FALSE]]

\* The identities of the bodies the caller holds.
BodyIds == 1 .. 4

\* The bodies as the caller constructs them: an equal-mass pair placed and
\* moving mirror-symmetrically (as in load_binary_stars), a third body of
\* another mass, and a light body within the softening distance of body 1.
NewBody(b) ==
    CASE b = 1 -> CelestialBody(1, FRound(145, 36),
                      <<FInt(1024), FZero>>, <<FZero, FRound(1, -2)>>)
      [] b = 2 -> CelestialBody(2, FRound(145, 36),
                      <<FInt(-1024), FZero>>, <<FZero, FRound(-1, -2)>>)
      [] b = 3 -> CelestialBody(3, FRound(177, 34),
                      <<FZero, FInt(3000)>>, <<FRound(1, -1), FZero>>)
      [] OTHER -> CelestialBody(b, FRound(175, 31),
                      <<FInt(300), FInt(-400)>>, <<FZero, FZero>>)

\* The dt arguments the caller passes (SimulationController.dt = 1000.0).
DtSet == {FInt(1000)}

NoOp == [op |-> "init", body |-> 0, bodies |-> <<>>, time |-> FZero]

NoForce == [body1 |-> 0, body2 |-> 0, force |-> VZero]

Op(name, b) == [op |-> name, body |-> b, bodies |-> bodies, time |-> time]

\* PhysicsEngine.__init__ with the caller's bodies constructed.
Init ==
    /\ bodies = <<>>
    /\ time = FZero
    /\ heap = [b \in BodyIds |-> NewBody(b)]
    /\ pc = "idle"
    /\ idx = 0
    /\ step_dt = FZero
    /\ pre = heap
    /\ calls = <<>>
    /\ history = [b \in BodyIds |-> <<>>]
    /\ last = NoOp
    /\ nops = 0
    /\ forces = NoForce
    /\ InitController

RECURSIVE RecordPhase(_, _, _, _, _)
\* The positions the second loop of PhysicsEngine.update gives the bodies,
\* appended to their histories in the order of the CelestialBody.update calls.
RecordPhase(bs, hp, hist, i, dt) ==
    IF i > Len(bs) THEN hist
    ELSE LET hp2 == IntegrateStep(bs, hp, i, dt)
         IN  RecordPhase(bs, hp2,
                 [hist EXCEPT ![bs[i]] = Append(@, hp2[bs[i]].position)],
                 i + 1, dt)

\* ------------------------------------------------------------------------
\* Operations of PhysicsEngine, each a whole call
\* ------------------------------------------------------------------------

AddBody(b) ==
    /\ pc = "idle"
    /\ bodies' = add_body(bodies, b)
    /\ last' = Op("add_body", b)
    /\ nops' = nops + 1
    /\ UNCHANGED <<time, heap, pc, idx, step_dt, pre, calls, history, forces>>
    /\ UNCHANGED controller

RemoveBody(b) ==
    /\ pc = "idle"
    /\ bodies' = remove_body(bodies, b)
    /\ last' = Op("remove_body", b)
    /\ nops' = nops + 1
    /\ UNCHANGED <<time, heap, pc, idx, step_dt, pre, calls, history, forces>>
    /\ UNCHANGED controller

ClearAll ==
    /\ pc = "idle"
    /\ LET e == clear_all([bodies |-> bodies, time |-> time])
       IN  /\ bodies' = e.bodies
           /\ time' = e.time
    /\ calls' = <<>>
    /\ last' = Op("clear_all", 0)
    /\ nops' = nops + 1
    /\ UNCHANGED <<heap, pc, idx, step_dt, pre, history, forces>>
    /\ UNCHANGED controller

Update(dt) ==
    /\ pc = "idle"
    /\ heap' = UpdateBodies(bodies, heap, dt)
    /\ time' = AdvanceTime(time, dt)
    /\ pre' = heap
    /\ step_dt' = dt
    /\ calls' = Append(calls, dt)
    /\ history' = RecordPhase(bodies, ForcePhase(bodies, heap, 1), history, 1, dt)
    /\ last' = Op("update", 0)
    /\ nops' = nops + 1
    /\ UNCHANGED <<bodies, pc, idx, forces>>
    /\ UNCHANGED controller

Next ==
    \/ \E b \in BodyIds :
          nops < MaxOps /\ Len(bodies) < MaxBodies /\ AddBody(b)
    \/ \E b \in BodyIds : nops < MaxOps /\ RemoveBody(b)
    \/ nops < MaxOps /\ ClearAll
    \/ \E dt \in DtSet : nops < MaxOps /\ Update(dt)

Spec == Init /\ [][Next]_vars

\* ------------------------------------------------------------------------
\* PhysicsEngine.update(dt) one loop iteration at a time
\* ------------------------------------------------------------------------

\* Entry of PhysicsEngine.update(dt).
BeginUpdate(dt) ==
    /\ pc = "idle"
    /\ pc' = "forces"
    /\ idx' = 1
    /\ step_dt' = dt
    /\ pre' = heap
    /\ last' = Op("update", 0)
    /\ nops' = nops + 1
    /\ UNCHANGED <<bodies, time, heap, calls, history, forces>>
    /\ UNCHANGED controller

\* One iteration of "for body in self.bodies: ... body.apply_force(total_force)".
ForceIter ==
    /\ pc = "forces"
    /\ idx <= Len(bodies)
    /\ heap' = ForceStep(bodies, heap, idx)
    /\ idx' = idx + 1
    /\ UNCHANGED <<bodies, time, pc, step_dt, pre, calls, history, last, nops,
                   forces>>
    /\ UNCHANGED controller

\* The first loop is exhausted: on to the second.
ForceDone ==
    /\ pc = "forces"
    /\ idx > Len(bodies)
    /\ pc' = "integrate"
    /\ idx' = 1
    /\ UNCHANGED <<bodies, time, heap, step_dt, pre, calls, history, last,
                   nops, forces>>
    /\ UNCHANGED controller

\* One iteration of "for body in self.bodies: body.update(dt)".
IntegrateIter ==
    /\ pc = "integrate"
    /\ idx <= Len(bodies)
    /\ heap' = IntegrateStep(bodies, heap, idx, step_dt)
    /\ history' = [history EXCEPT
                     ![bodies[idx]] = Append(@, heap'[bodies[idx]].position)]
    /\ idx' = idx + 1
    /\ UNCHANGED <<bodies, time, pc, step_dt, pre, calls, last, nops, forces>>
    /\ UNCHANGED controller

\* The second loop is exhausted: self.time += dt and return.
FinishUpdate ==
    /\ pc = "integrate"
    /\ idx > Len(bodies)
    /\ time' = AdvanceTime(time, step_dt)
    /\ calls' = Append(calls, step_dt)
    /\ pc' = "idle"
    /\ idx' = 0
    /\ UNCHANGED <<bodies, heap, step_dt, pre, history, last, nops, forces>>
    /\ UNCHANGED controller

\* The bodies of the stepwise specification.
StepBodies == 1 .. 3

NextSteps ==
    \/ \E b \in StepBodies :
          nops < MaxStepOps /\ Len(bodies) < MaxBodies /\ AddBody(b)
    \/ \E b \in StepBodies : nops < MaxStepOps /\ RemoveBody(b)
    \/ nops < MaxStepOps /\ ClearAll
    \/ \E dt \in DtSet : nops < MaxStepOps /\ BeginUpdate(dt)
    \/ ForceIter
    \/ ForceDone
    \/ IntegrateIter
    \/ FinishUpdate

SpecSteps == Init /\ [][NextSteps]_vars

\* ------------------------------------------------------------------------
\* The time accumulator over long runs of updates
\* ------------------------------------------------------------------------

\* The bodies of the long-run specification.
TimeBodies == {1, 3}

\* The dt arguments of the long-run specification: the driver's 1000.0 or a
\* step of one second, the same in every call of a run as in the driver,
\* which never changes SimulationController.dt.
TimeDtSet == {FInt(1000), FInt(1)}

NextTime ==
    \/ \E b \in TimeBodies :
          nops < MaxTimeOps /\ Len(bodies) < MaxTimeBodies /\ AddBody(b)
    \/ \E b \in TimeBodies : nops < MaxTimeOps /\ RemoveBody(b)
    \/ \E dt \in TimeDtSet :
          /\ nops < MaxTimeOps
          /\ \A i \in 1 .. Len(calls) : calls[i] = dt
          /\ Update(dt)

SpecTime == Init /\ [][NextTime]_vars

\* ------------------------------------------------------------------------
\* The driver's start-up system stepped past the trajectory cap
\* ------------------------------------------------------------------------

\* SimulationController.__init__ leaves the engine with the two bodies of
\* load_example_system added in order.
InitTraj ==
    /\ bodies = add_body(add_body(<<>>, 1), 3)
    /\ time = FZero
    /\ heap = [b \in BodyIds |-> NewBody(b)]
    /\ pc = "idle"
    /\ idx = 0
    /\ step_dt = FZero
    /\ pre = heap
    /\ calls = <<>>
    /\ history = [b \in BodyIds |-> <<>>]
    /\ last = [op |-> "add_body", body |-> 3, bodies |-> <<1>>, time |-> FZero]
    /\ nops = 2
    /\ forces = NoForce
    /\ InitController

NextTraj ==
    /\ Len(calls) < TrajSteps
    /\ \E dt \in DtSet : Update(dt)

SpecTraj == InitTraj /\ [][NextTraj]_vars

\* ------------------------------------------------------------------------
\* calculate_gravitational_force on drawn inputs
\* ------------------------------------------------------------------------

MassSet == {FRound(145, 36), FRound(177, 34), FRound(175, 31)}

PositionSet ==
    {<<FZero, FZero>>, <<FInt(300), FInt(-400)>>, <<FInt(996), FZero>>,
     <<FInt(1000), FZero>>, <<FInt(600), FInt(800)>>,
     <<FInt(-3000), FInt(4000)>>, <<FInt(1300), FInt(-400)>>}

\* Two bodies with drawn masses and positions, at rest.
InitForce ==
    /\ bodies = <<>>
    /\ time = FZero
    /\ \E m1 \in MassSet, m2 \in MassSet, p1 \in PositionSet, p2 \in PositionSet :
         heap = [b \in BodyIds |->
                   IF b = 1 THEN CelestialBody(1, m1, p1, VZero)
                   ELSE IF b = 2 THEN CelestialBody(2, m2, p2, VZero)
                   ELSE NewBody(b)]
    /\ pc = "idle"
    /\ idx = 0
    /\ step_dt = FZero
    /\ pre = heap
    /\ calls = <<>>
    /\ history = [b \in BodyIds |-> <<>>]
    /\ last = NoOp
    /\ nops = 0
    /\ forces = NoForce
    /\ InitController

\* A call calculate_gravitational_force(body1, body2).
CalcForce(b1, b2) ==
    /\ forces' = [body1 |-> b1, body2 |-> b2,
                  force |-> calculate_gravitational_force(heap[b1], heap[b2])]
    /\ UNCHANGED <<bodies, time, heap, pc, idx, step_dt, pre, calls, history,
                   last, nops>>
    /\ UNCHANGED controller

NextForce == \E b1 \in {1, 2}, b2 \in {1, 2} : b1 # b2 /\ CalcForce(b1, b2)

SpecForce == InitForce /\ [][NextForce]_vars

\* ------------------------------------------------------------------------
\* SimulationController
\* ------------------------------------------------------------------------

\* SimulationController.dt = 1000.0
SimulationDt == Decimal(1000, 0)

\* InputField.handle_event appends a character while len(value) < 20.
FieldLimit == 20

\* The rectangles <<x, y, width, height>> of SimulationController.buttons.
Buttons ==
    [start         |-> <<10, 650, 80, 35>>,
     pause         |-> <<100, 650, 80, 35>>,
     stop          |-> <<190, 650, 80, 35>>,
     add           |-> <<400, 650, 80, 35>>,
     clear         |-> <<490, 650, 80, 35>>,
     export        |-> <<580, 650, 80, 35>>,
     speed_1x      |-> <<850, 650, 50, 35>>,
     speed_2x      |-> <<910, 650, 50, 35>>,
     speed_5x      |-> <<970, 650, 50, 35>>,
     speed_10x     |-> <<1030, 650, 60, 35>>,
     preset_solar  |-> <<10, 130, 110, 30>>,
     preset_binary |-> <<10, 170, 110, 30>>,
     preset_three  |-> <<10, 210, 110, 30>>]

\* The rectangles of SimulationController.input_fields.
Fields ==
    [name     |-> <<300, 600, 140, 25>>,
     mass     |-> <<450, 600, 140, 25>>,
     distance |-> <<600, 600, 140, 25>>,
     speed    |-> <<750, 600, 140, 25>>,
     angle    |-> <<900, 600, 100, 25>>]

\* pygame.Rect.collidepoint: the right and bottom edges are outside.
collidepoint(rect, pos) ==
    /\ rect[1] <= pos[1] /\ pos[1] < rect[1] + rect[3]
    /\ rect[2] <= pos[2] /\ pos[2] < rect[2] + rect[4]

\* UIButton.handle_event on a MOUSEBUTTONDOWN event at pos.
Pressed(button, pos) == collidepoint(Buttons[button], pos)

\* np.cos and np.sin as numpy returns them on doubles for the angles the
\* model uses, the angle given in degrees: 0, 90 (np.pi / 2), 210
\* (7 * np.pi / 6) and -30 (-np.pi / 6).
np_cos(degrees) ==
    CASE degrees = FInt(0)   -> FInt(1)
      [] degrees = FInt(90)  -> FRound(4626585, -76)
      [] degrees = FInt(210) -> FRound(-14529495, -24)
      [] degrees = FInt(-30) -> FRound(14529495, -24)

np_sin(degrees) ==
    CASE degrees = FInt(0)   -> FZero
      [] degrees = FInt(90)  -> FInt(1)
      [] degrees = FInt(210) -> FRound(-1, -1)
      [] degrees = FInt(-30) -> FRound(-1, -1)

\* The engine and the controller's flags as one record c: bodies, time,
\* heap (the CelestialBody objects by identity), calls (history),
\* is_paused, simulation_speed.

\* A CelestialBody is constructed, with a fresh identity, and passed to
\* physics_engine.add_body.
AddNewBody(c, body) ==
    LET id == Cardinality(DOMAIN c.heap) + 1
    IN  [c EXCEPT !.heap = @ @@ (id :> body),
                  !.bodies = add_body(@, id)]

\* self.physics_engine.clear_all()
ClearEngine(c) ==
    LET e == clear_all([bodies |-> c.bodies, time |-> c.time])
    IN  [c EXCEPT !.bodies = e.bodies, !.time = e.time, !.calls = <<>>]

SunBody ==
    CelestialBody("Sun", Decimal(1989, 27), <<FInt(0), FInt(0)>>,
                  <<FInt(0), FInt(0)>>)

EarthBody ==
    CelestialBody("Earth", Decimal(5972, 21), <<Decimal(1496, 8), FInt(0)>>,
                  <<FInt(0), FInt(29780)>>)

\* SimulationController.load_example_system
load_example_system(c) == AddNewBody(AddNewBody(c, SunBody), EarthBody)

\* Mutant of load_solar_system: clear_all is not called.
load_solar_system_keep(c) ==
    LET c0 == [c EXCEPT !.is_paused = TRUE]
        c1 == AddNewBody(c0, SunBody)
        c2 == AddNewBody(c1,
                 CelestialBody("Mercury", Decimal(33, 22),
                     <<Decimal(579, 8), FInt(0)>>, <<FInt(0), FInt(47900)>>))
        c3 == AddNewBody(c2,
                 CelestialBody("Venus", Decimal(487, 22),
                     <<Decimal(108, 9), FInt(0)>>, <<FInt(0), FInt(35000)>>))
        c4 == AddNewBody(c3, EarthBody)
    IN  AddNewBody(c4,
            CelestialBody("Mars", Decimal(639, 21),
                <<Decimal(228, 9), FInt(0)>>, <<FInt(0), FInt(24000)>>))

\* SimulationController.load_solar_system
load_solar_system(c) ==
    LET c0 == [ClearEngine(c) EXCEPT !.is_paused = TRUE]
        c1 == AddNewBody(c0, SunBody)
        c2 == AddNewBody(c1,
                 CelestialBody("Mercury", Decimal(33, 22),
                     <<Decimal(579, 8), FInt(0)>>, <<FInt(0), FInt(47900)>>))
        c3 == AddNewBody(c2,
                 CelestialBody("Venus", Decimal(487, 22),
                     <<Decimal(108, 9), FInt(0)>>, <<FInt(0), FInt(35000)>>))
        c4 == AddNewBody(c3, EarthBody)
    IN  AddNewBody(c4,
            CelestialBody("Mars", Decimal(639, 21),
                <<Decimal(228, 9), FInt(0)>>, <<FInt(0), FInt(24000)>>))

\* SimulationController.load_binary_stars
load_binary_stars(c) ==
    LET c0 == [ClearEngine(c) EXCEPT !.is_paused = TRUE]
        m  == Decimal(1, 30)
        d  == Decimal(1, 11)
        v  == FSqrt(FDiv(FMul(G, m), d))
        c1 == AddNewBody(c0,
                 CelestialBody("Star A", m,
                     <<FDiv(d, FInt(2)), FInt(0)>>, <<FInt(0), v>>))
    IN  AddNewBody(c1,
            CelestialBody("Star B", m,
                <<FDiv(FNeg(d), FInt(2)), FInt(0)>>, <<FInt(0), FNeg(v)>>))

\* The body load_three_body puts at the given angle of the circle of
\* radius r, moving along the circle with speed v.
ThreeBodyAt(name, m, r, v, degrees) ==
    CelestialBody(name, m,
        <<FMul(r, np_cos(degrees)), FMul(r, np_sin(degrees))>>,
        <<FMul(FNeg(v), np_sin(degrees)), FMul(v, np_cos(degrees))>>)

\* SimulationController.load_three_body
load_three_body(c) ==
    LET c0 == [ClearEngine(c) EXCEPT !.is_paused = TRUE]
        m  == Decimal(1, 30)
        r  == Decimal(15, 10)
        v  == FSqrt(FDiv(FMul(FMul(G, m), Decimal(1577, -3)), r))
        c1 == AddNewBody(c0, ThreeBodyAt("Body 1", m, r, v, FInt(90)))
        c2 == AddNewBody(c1, ThreeBodyAt("Body 2", m, r, v, FInt(210)))
    IN  AddNewBody(c2, ThreeBodyAt("Body 3", m, r, v, FInt(-30)))

\* The body of the try block of add_planet_from_input after the four
\* float(...) calls, each given as its result [ok, value]: the first
\* ValueError ends the call in the except clause.  The mass is passed on as
\* parsed.
AddParsed(c, name, mass, distance, speed, angle_deg) ==
    IF ~mass.ok \/ ~distance.ok \/ ~speed.ok \/ ~angle_deg.ok THEN c
    ELSE AddNewBody(c,
             CelestialBody(name, mass.value,
                 <<FMul(distance.value, np_cos(angle_deg.value)),
                   FMul(distance.value, np_sin(angle_deg.value))>>,
                 <<FMul(FNeg(speed.value), np_sin(angle_deg.value)),
                   FMul(speed.value, np_cos(angle_deg.value))>>))

\* Mutant of add_planet_from_input: a field that does not parse counts as 0.0.
add_planet_from_input_lenient(c, fields) ==
    AddParsed(c, fields["name"].value,
              [ParseFloat(fields["mass"].value) EXCEPT !.ok = TRUE],
              [ParseFloat(fields["distance"].value) EXCEPT !.ok = TRUE],
              [ParseFloat(fields["speed"].value) EXCEPT !.ok = TRUE],
              [ParseFloat(fields["angle"].value) EXCEPT !.ok = TRUE])

\* SimulationController.add_planet_from_input
add_planet_from_input(c, fields) ==
    AddParsed(c, fields["name"].value,
              ParseFloat(fields["mass"].value),
              ParseFloat(fields["distance"].value),
              ParseFloat(fields["speed"].value),
              ParseFloat(fields["angle"].value))

\* The buttons in the order in which handle_events asks them.
ButtonOrder ==
    <<"start", "pause", "stop", "add", "clear", "export", "speed_1x",
      "speed_2x", "speed_5x", "speed_10x", "preset_solar", "preset_binary",
      "preset_three">>

\* What handle_events does when the button has been pressed; export_report
\* writes a file and changes nothing of the controller.
on_button(button, c, fields) ==
    CASE button = "start" -> [c EXCEPT !.is_paused = FALSE]
      [] button = "pause" -> [c EXCEPT !.is_paused = TRUE]
      [] button = "stop" ->
            load_example_system(ClearEngine([c EXCEPT !.is_paused = TRUE]))
      [] button = "add" -> add_planet_from_input(c, fields)
      [] button = "clear" -> ClearEngine(c)
      [] button = "export" -> c
      [] button = "speed_1x" -> [c EXCEPT !.simulation_speed = 1]
      [] button = "speed_2x" -> [c EXCEPT !.simulation_speed = 2]
      [] button = "speed_5x" -> [c EXCEPT !.simulation_speed = 5]
      [] button = "speed_10x" -> [c EXCEPT !.simulation_speed = 10]
      [] button = "preset_solar" -> load_solar_system(c)
      [] button = "preset_binary" -> load_binary_stars(c)
      [] button = "preset_three" -> load_three_body(c)

RECURSIVE handle_buttons_from(_, _, _, _)
\* The buttons ButtonOrder[i], ... are asked in turn.
handle_buttons_from(c, fields, pos, i) ==
    IF i > Len(ButtonOrder) THEN c
    ELSE handle_buttons_from(
             IF Pressed(ButtonOrder[i], pos)
             THEN on_button(ButtonOrder[i], c, fields) ELSE c,
             fields, pos, i + 1)

\* The button part of one pass of the event loop of handle_events for a
\* MOUSEBUTTONDOWN event at pos: every button is asked in turn.
handle_buttons(c, fields, pos) == handle_buttons_from(c, fields, pos, 1)

\* InputField.handle_event on a MOUSEBUTTONDOWN event at pos.
InputField_mouse(field, rect, pos) ==
    [field EXCEPT !.active = collidepoint(rect, pos)]

\* InputField.handle_event on a KEYDOWN event; a key is "BACKSPACE",
\* "RETURN" or the character typed.
InputField_key(field, key) ==
    IF ~field.active THEN field
    ELSE IF key = "BACKSPACE"
         THEN [field EXCEPT !.value = SubSeq(@, 1, Len(@) - 1)]
    ELSE IF key = "RETURN" THEN [field EXCEPT !.active = FALSE]
    ELSE IF Len(field.value) < FieldLimit
         THEN [field EXCEPT !.value = Append(@, key)]
    ELSE field

\* Mutant of FrameUpdates: the pause flag is not consulted.
FrameUpdatesUnpaused(paused, speed) == speed

\* SimulationController.update: the number of physics_engine.update(dt)
\* calls of one frame.
FrameUpdates(paused, speed) == IF ~paused THEN speed ELSE 0

\* One PhysicsEngine.update(dt) on the record e of heap, time and the
\* histories pre, calls and history.
EngineUpdate(e, bs, dt) ==
    [heap    |-> UpdateBodies(bs, e.heap, dt),
     time    |-> AdvanceTime(e.time, dt),
     pre     |-> e.heap,
     calls   |-> Append(e.calls, dt),
     history |-> RecordPhase(bs, ForcePhase(bs, e.heap, 1), e.history, 1, dt)]

RECURSIVE RepeatUpdate(_, _, _, _)
\* "for _ in range(n): self.physics_engine.update(dt)"; the comparison
\* has the engine of one iteration evaluated before the next begins.
RepeatUpdate(e, bs, dt, n) ==
    IF n = 0 THEN e
    ELSE LET next == EngineUpdate(e, bs, dt)
         IN  IF next = next THEN RepeatUpdate(next, bs, dt, n - 1) ELSE e

\* The controller and its engine as one record.
Controller ==
    [bodies |-> bodies, time |-> time, heap |-> heap, calls |-> calls,
     is_paused |-> is_paused, simulation_speed |-> simulation_speed]

\* An event of type MOUSEBUTTONDOWN at pos, handled by handle_events: first
\* every input field, then every button.
MouseDown(pos) ==
    /\ pc = "idle"
    /\ input_fields' =
          [f \in FieldNames |-> InputField_mouse(input_fields[f], Fields[f], pos)]
    /\ \E c \in {handle_buttons(Controller, input_fields', pos)} :
           /\ bodies' = c.bodies
           /\ time' = c.time
           /\ heap' = c.heap
           /\ calls' = c.calls
           /\ is_paused' = c.is_paused
           /\ simulation_speed' = c.simulation_speed
           /\ history' = [b \in DOMAIN c.heap |->
                            IF b \in DOMAIN history THEN history[b] ELSE <<>>]
    /\ last' = Op("mousedown", pos)
    /\ nops' = nops + 1
    /\ UNCHANGED <<pc, idx, step_dt, pre, forces>>

\* An event of type KEYDOWN, handled by handle_events: every input field
\* sees it, no button reacts to it.
KeyDown(key) ==
    /\ pc = "idle"
    /\ input_fields' =
          [f \in FieldNames |-> InputField_key(input_fields[f], key)]
    /\ last' = Op("keydown", key)
    /\ nops' = nops + 1
    /\ UNCHANGED <<bodies, time, heap, pc, idx, step_dt, pre, calls, history,
                   forces, is_paused, simulation_speed>>

\* SimulationController.update: one frame of the main loop.
Frame ==
    /\ pc = "idle"
    /\ \E e \in {RepeatUpdate(
                    [heap |-> heap, time |-> time, pre |-> pre,
                     calls |-> calls, history |-> history],
                    bodies, SimulationDt,
                    FrameUpdates(is_paused, simulation_speed))} :
           /\ heap' = e.heap
           /\ time' = e.time
           /\ pre' = e.pre
           /\ calls' = e.calls
           /\ history' = e.history
    /\ step_dt' = SimulationDt
    /\ last' = Op("frame", 0)
    /\ nops' = nops + 1
    /\ UNCHANGED <<bodies, pc, idx, forces>>
    /\ UNCHANGED controller

\* SimulationController.__init__: a fresh engine, load_example_system, the
\* flags and fields of InitController.
InitCtl ==
    /\ InitController
    /\ LET c == load_example_system(
                    [bodies |-> <<>>, time |-> FZero, heap |-> <<>>,
                     calls |-> <<>>, is_paused |-> TRUE,
                     simulation_speed |-> 1])
       IN  /\ bodies = c.bodies
           /\ time = c.time
           /\ heap = c.heap
           /\ history = [b \in DOMAIN c.heap |-> <<>>]
    /\ pc = "idle"
    /\ idx = 0
    /\ step_dt = FZero
    /\ pre = heap
    /\ calls = <<>>
    /\ last = NoOp
    /\ nops = 0
    /\ forces = NoForce

\* The point in the middle of a rectangle.
Centre(rect) == <<rect[1] + rect[3] \div 2, rect[2] + rect[4] \div 2>>

\* The places of the mouse clicks: the middle of every button and a point
\* of the window outside every button and field.
ButtonPoints == {Centre(Buttons[b]) : b \in DOMAIN Buttons} \cup {<<600, 300>>}

\* At most MaxCtlOps events, with frames between them and after the last.
NextCtl ==
    \/ \E pos \in ButtonPoints : nops < MaxCtlOps /\ MouseDown(pos)
    \/ nops <= MaxCtlOps /\ Frame

SpecCtl == InitCtl /\ [][NextCtl]_vars

\* ------------------------------------------------------------------------
\* The input fields and the Add button
\* ------------------------------------------------------------------------

\* Texts the user has left in the fields: the defaults and others, some of
\* which float() rejects.
MassInputs ==
    {DefaultFields["mass"], <<"0">>, <<"-", "5">>, <<"1", "2", "x">>, <<>>}

DistanceInputs == {DefaultFields["distance"], <<"1", "e">>}

SpeedInputs == {DefaultFields["speed"], <<>>}

AngleInputs == {DefaultFields["angle"], <<"9", "0">>, <<"9", "x">>}

\* The controller after __init__ and some typing into the fields.
InitInput ==
    /\ is_paused = TRUE
    /\ simulation_speed = 1
    /\ \E m \in MassInputs, d \in DistanceInputs, v \in SpeedInputs,
          a \in AngleInputs :
          input_fields =
             [f \in FieldNames |->
                [value  |-> CASE f = "mass" -> m
                              [] f = "distance" -> d
                              [] f = "speed" -> v
                              [] f = "angle" -> a
                              [] OTHER -> DefaultFields[f],
                 active |-> FALSE]]
    /\ LET c == load_example_system(
                    [bodies |-> <<>>, time |-> FZero, heap |-> <<>>,
                     calls |-> <<>>, is_paused |-> TRUE,
                     simulation_speed |-> 1])
       IN  /\ bodies = c.bodies
           /\ time = c.time
           /\ heap = c.heap
           /\ history = [b \in DOMAIN c.heap |-> <<>>]
    /\ pc = "idle"
    /\ idx = 0
    /\ step_dt = FZero
    /\ pre = heap
    /\ calls = <<>>
    /\ last = NoOp
    /\ nops = 0
    /\ forces = NoForce

\* The places of the mouse clicks: the name and mass fields, the Add button
\* and a point outside every button and field.
InputPoints ==
    {Centre(Fields["name"]), Centre(Fields["mass"]), Centre(Buttons["add"]),
     <<600, 300>>}

\* The keys pressed.
Keys == {"0", "x", "BACKSPACE", "RETURN"}

NextInput ==
    \/ \E pos \in InputPoints : nops < MaxInputOps /\ MouseDown(pos)
    \/ \E key \in Keys : nops < MaxInputOps /\ KeyDown(key)

SpecInput == InitInput /\ [][NextInput]_vars

\* ========================================================================
\* Claims
\* ========================================================================

\* Sequences without a repeated entry.
Distinct(bs) == \A i, j \in 1 .. Len(bs) : bs[i] = bs[j] => i = j

\* The orders of the entries of bs.
Orders(bs) ==
    {p \in [1 .. Len(bs) -> {bs[i] : i \in 1 .. Len(bs)}] :
        \A i, j \in 1 .. Len(bs) : p[i] = p[j] => i = j}

\* The acceleration apply_force gives the body at index i from the forces
\* computed on the bodies hp.
AccelerationFrom(bs, hp, i) == VDiv(TotalForce(bs, hp, i), hp[bs[i]].mass)

\* C1: PhysicsEngine.update(dt) is two-phase.  While the first loop runs no
\* body's position, velocity or trajectory differs from what it was when the
\* update began, and every acceleration assigned in the step, during either
\* loop and at return, is the total force computed from the positions all
\* bodies had before the step, divided by the body's mass.
C1_TwoPhase ==
    /\ pc = "forces" =>
         /\ \A b \in BodyIds :
               /\ heap[b].position = pre[b].position
               /\ heap[b].velocity = pre[b].velocity
               /\ heap[b].trajectory = pre[b].trajectory
         /\ \A i \in 1 .. (idx - 1) :
               heap[bodies[i]].acceleration = AccelerationFrom(bodies, pre, i)
    /\ (pc = "integrate" \/ (pc = "idle" /\ last.op = "update")) =>
         \A i \in 1 .. Len(bodies) :
               heap[bodies[i]].acceleration = AccelerationFrom(bodies, pre, i)

\* C1 witness: the second loop has moved the first of two distinct bodies,
\* the second still stands where it was, and both carry a non-zero
\* acceleration from the first loop.
C1_Witness ==
    /\ pc = "integrate"
    /\ idx = 2
    /\ Len(bodies) >= 2
    /\ bodies[1] # bodies[2]
    /\ heap[bodies[1]].position # pre[bodies[1]].position
    /\ heap[bodies[2]].position = pre[bodies[2]].position
    /\ heap[bodies[1]].acceleration # VZero
    /\ heap[bodies[2]].acceleration # VZero

\* Position, velocity and acceleration of every body of the list bs.
Kinematics(bs, hp) ==
    [b \in {bs[i] : i \in 1 .. Len(bs)} |->
        <<hp[b].position, hp[b].velocity, hp[b].acceleration>>]

\* Every insertion order of the current collection gives every body the
\* same position, velocity and acceleration after one update.
OrderIndependent ==
    \A dt \in DtSet : \A p \in Orders(bodies) :
        Kinematics(p, UpdateBodies(p, heap, dt))
            = Kinematics(bodies, UpdateBodies(bodies, heap, dt))

\* C2 as stated: for any collection of distinct bodies, in a fresh engine or
\* after any number of updates, the result of update(dt) is the same in
\* every insertion order.
C2_Original == (pc = "idle" /\ Distinct(bodies)) => OrderIndependent

\* C2 as amended: for a collection of at most three distinct bodies, in a
\* fresh engine or after any number of updates, the result of update(dt) is
\* the same in every insertion order (a total force is then a sum of at most
\* two terms, and float addition commutes but does not associate).
C2_OrderIndependentUpTo3 ==
    (pc = "idle" /\ Distinct(bodies) /\ Len(bodies) <= 3) => OrderIndependent

\* C2 witness: three distinct bodies that an update has already moved.
C2_Witness ==
    /\ Len(bodies) = 3
    /\ Distinct(bodies)
    /\ last.op = "update"
    /\ \A i \in 1 .. 3 : heap[bodies[i]].acceleration # VZero
    /\ \E p \in Orders(bodies) : p # bodies

\* The last n entries of a sequence.
LastN(seq, n) == SubSeq(seq, Len(seq) - n + 1, Len(seq))

\* C3: after every CelestialBody.update the trajectory has at most 500
\* entries; it holds every position the body has had while there are at most
\* 500 of them, and once the body has been updated more than 500 times it
\* holds exactly the 500 most recent positions, oldest first.
C3_TrajectoryCap ==
    \A b \in BodyIds :
        /\ Len(heap[b].trajectory) <= 500
        /\ Len(history[b]) <= 500 => heap[b].trajectory = history[b]
        /\ Len(history[b]) > 500 =>
              /\ Len(heap[b].trajectory) = 500
              /\ heap[b].trajectory = LastN(history[b], 500)

\* C3 witness: a body updated 502 times whose two oldest positions, both
\* different from the oldest position kept, have been evicted.
C3_Witness ==
    /\ Len(history[1]) = 502
    /\ Len(heap[1].trajectory) = 500
    /\ heap[1].trajectory[1] = history[1][3]
    /\ history[1][1] # history[1][3]
    /\ history[1][2] # history[1][3]
    /\ heap[1].trajectory[500] = heap[1].position

\* The dt every update since time was last 0.0 was called with, when it is
\* one and the same.
SameDt(dt) == \A i \in 1 .. Len(calls) : calls[i] = dt

RECURSIVE RunningSum(_, _)
\* 0.0 + dt + ... + dt with k additions, each rounded.
RunningSum(k, dt) == IF k = 0 THEN FZero ELSE FAdd(RunningSum(k - 1, dt), dt)

\* The exact value m * 2^e is a float.
Representable(m, e) ==
    LET r == FRound(m, e)
    IN  IF r.e >= e THEN r.m * Pow2(r.e - e) = m ELSE TRUE

\* C4 as stated: after k updates with the same dt since time was 0.0, time
\* equals k * dt (the float product Python evaluates for k * dt).
C4_Original ==
    \A dt \in TimeDtSet :
        (pc = "idle" /\ SameDt(dt)) => time = FMul(FInt(Len(calls)), dt)

\* C4 as amended: after k updates with the same dt since time was 0.0, time
\* is the running float sum 0.0 + dt + ... + dt of k additions, whatever
\* bodies the collection held and whatever add_body and remove_body calls
\* came between; it equals k * dt, exactly and as a float product, whenever
\* every partial product j * dt up to k is representable.
C4_TimeIsRunningSum ==
    \A dt \in TimeDtSet :
        (pc = "idle" /\ SameDt(dt)) =>
            /\ time = RunningSum(Len(calls), dt)
            /\ (\A j \in 1 .. Len(calls) : Representable(j * dt.m, dt.e)) =>
                  /\ time = FRound(Len(calls) * dt.m, dt.e)
                  /\ time = FMul(FInt(Len(calls)), dt)

\* C4 witness: six updates with the same dt, every partial product
\* representable, with bodies added and removed in between.
C4_Witness ==
    /\ Len(calls) = 6
    /\ \E dt \in TimeDtSet :
          /\ SameDt(dt)
          /\ \A j \in 1 .. 6 : Representable(j * dt.m, dt.e)
    /\ last.op = "update"
    /\ bodies # <<>>
    /\ \E b \in BodyIds : history[b] # <<>>

C6_ClearAll ==
    LET e == [bodies |-> bodies, time |-> time]
    IN  /\ clear_all(e).bodies = <<>>
        /\ clear_all(e).time = FZero
        /\ clear_all(clear_all(e)) = clear_all(e)
        /\ last.op = "clear_all" =>
              /\ bodies = <<>>
              /\ time = FZero
              /\ clear_all(e) = e

\* C6 witness: clear_all on an engine that held bodies and had advanced.
C6_Witness ==
    /\ last.op = "clear_all"
    /\ Len(last.bodies) >= 2
    /\ last.time # FZero
    /\ bodies = <<>>

\* The indices of bs at which b stands.
Occurrences(bs, b) == {i \in 1 .. Len(bs) : bs[i] = b}

\* C7: remove_body(body) removes exactly the first entry that is the body
\* and keeps the order of the others; when the body is not in the collection
\* the collection is unchanged; time is unchanged either way.
C7_RemoveFirst ==
    last.op = "remove_body" =>
        LET old == last.bodies
            occ == Occurrences(old, last.body)
        IN  /\ time = last.time
            /\ occ = {} => bodies = old
            /\ occ # {} =>
                  LET first == CHOOSE i \in occ : \A j \in occ : i <= j
                  IN  /\ Len(bodies) = Len(old) - 1
                      /\ \A j \in 1 .. Len(bodies) :
                            bodies[j] = IF j < first THEN old[j] ELSE old[j + 1]

\* C7 witness: the body removed stood in the collection twice, with another
\* body before its first entry; its second entry is still there.
C7_Witness ==
    /\ last.op = "remove_body"
    /\ Cardinality(Occurrences(last.bodies, last.body)) = 2
    /\ last.bodies[1] # last.body
    /\ Cardinality(Occurrences(bodies, last.body)) = 1
    /\ bodies[1] = last.bodies[1]

\* The bodies of the latest calculate_gravitational_force call.
Called1 == heap[forces.body1]

Called2 == heap[forces.body2]

\* G * m1 * m2 as Python evaluates it, left to right.
MassProduct(m1, m2) == FMul(FMul(G, m1), m2)

\* C8: when the distance of the two bodies (the norm the function computes)
\* is below 1000 the result is the zero vector whatever the masses; at 1000
\* or more it is G*m1*m2/distance^2 times the unit vector from body1 to
\* body2.
C8_SofteningFloor ==
    forces.body1 # 0 =>
        LET d == VNorm(VSub(Called2.position, Called1.position))
        IN  /\ FLess(d, FInt(1000)) => forces.force = VZero
            /\ ~FLess(d, FInt(1000)) =>
                  LET magnitude == FDiv(MassProduct(Called1.mass, Called2.mass),
                                        FMul(d, d))
                      unit == VDiv(VSub(Called2.position, Called1.position), d)
                  IN  /\ forces.force =
                            <<FMul(magnitude, unit[1]), FMul(magnitude, unit[2])>>
                      /\ forces.force # VZero

\* C8 witness: a call on two bodies exactly 1000 apart, which returned a
\* non-zero force.
C8_Witness ==
    /\ forces.body1 # 0
    /\ Distance(Called1, Called2) = FInt(1000)
    /\ Called1.mass # Called2.mass
    /\ forces.force # VZero

\* The force points from body1 toward body2: each component has the sign of
\* the same component of body2.position - body1.position.
PointsToward(force, body1, body2) ==
    \A c \in 1 .. 2 :
        Sgn(force[c].m) = Sgn(FSub(body2.position[c], body1.position[c]).m)

\* C9 as stated: at distance 1000 or more the force on body1 from body2 is
\* the exact negation of the force on body2 from body1 and points from body1
\* toward body2.
C9_Original ==
    (forces.body1 # 0 /\ ~FLess(Distance(Called1, Called2), FInt(1000))) =>
        /\ forces.force = VNeg(calculate_gravitational_force(Called2, Called1))
        /\ PointsToward(forces.force, Called1, Called2)

\* C9 as amended: at distance 1000 or more the force on body1 points from
\* body1 toward body2, the force on body2 points the opposite way, and the
\* two are exact negations whenever G*m1*m2 and G*m2*m1, evaluated left to
\* right, are the same float (as they are for equal masses).
C9_AntisymmetryWhenProductsAgree ==
    (forces.body1 # 0 /\ ~FLess(Distance(Called1, Called2), FInt(1000))) =>
        LET back == calculate_gravitational_force(Called2, Called1)
        IN  /\ PointsToward(forces.force, Called1, Called2)
            /\ PointsToward(back, Called2, Called1)
            /\ Direction(Called1, Called2) = VNeg(Direction(Called2, Called1))
            /\ Distance(Called1, Called2) = Distance(Called2, Called1)
            /\ MassProduct(Called1.mass, Called2.mass)
                  = MassProduct(Called2.mass, Called1.mass)
               => forces.force = VNeg(back)
            /\ Called1.mass = Called2.mass => forces.force = VNeg(back)

\* C9 witness: a call on two bodies of different masses, 1000 or more apart
\* and off both axes, whose mass products agree.
C9_Witness ==
    /\ forces.body1 # 0
    /\ ~FLess(Distance(Called1, Called2), FInt(1000))
    /\ Called1.mass # Called2.mass
    /\ MassProduct(Called1.mass, Called2.mass)
          = MassProduct(Called2.mass, Called1.mass)
    /\ forces.force[1].m # 0
    /\ forces.force[2].m # 0

\* m1*v1 + m2*v2 of the bodies a and b.
Momentum(hp, a, b) ==
    VAdd(VScale(hp[a].velocity, hp[a].mass), VScale(hp[b].velocity, hp[b].mass))

\* The collection holds exactly two distinct bodies.
TwoBodies == pc = "idle" /\ Len(bodies) = 2 /\ bodies[1] # bodies[2]

\* An update of a collection of exactly two distinct bodies has just returned.
TwoBodyUpdate == TwoBodies /\ last.op = "update"

\* The bodies a and b have equal masses and opposite positions and velocities.
Mirrored(hp, a, b) ==
    /\ hp[a].mass = hp[b].mass
    /\ hp[a].position = VNeg(hp[b].position)
    /\ hp[a].velocity = VNeg(hp[b].velocity)

\* C10 as stated: in a system of exactly two distinct bodies the two total
\* forces of an update sum to the zero vector, and the total momentum after
\* an update is the same as before it.
C10_Original ==
    /\ TwoBodies =>
          VAdd(TotalForce(bodies, heap, 1), TotalForce(bodies, heap, 2)) = VZero
    /\ TwoBodyUpdate =>
          Momentum(heap, bodies[1], bodies[2]) = Momentum(pre, bodies[1], bodies[2])

\* C10 as amended: in a system of exactly two distinct bodies the two total
\* forces of an update are exact negations and sum to the zero vector
\* whenever G*m1*m2 and G*m2*m1 are the same float (as for equal masses);
\* for two bodies of equal mass with opposite positions and velocities, as
\* load_binary_stars creates them, every update keeps them so and the total
\* momentum stays exactly zero.
C10_TwoBodyCancellation ==
    /\ (TwoBodies /\ MassProduct(heap[bodies[1]].mass, heap[bodies[2]].mass)
                       = MassProduct(heap[bodies[2]].mass, heap[bodies[1]].mass)) =>
          /\ TotalForce(bodies, heap, 1) = VNeg(TotalForce(bodies, heap, 2))
          /\ VAdd(TotalForce(bodies, heap, 1), TotalForce(bodies, heap, 2)) = VZero
    /\ (TwoBodyUpdate /\ Mirrored(pre, bodies[1], bodies[2])) =>
          /\ Mirrored(heap, bodies[1], bodies[2])
          /\ Momentum(heap, bodies[1], bodies[2]) = VZero
          /\ Momentum(pre, bodies[1], bodies[2]) = VZero

\* C10 witness: the second update of the mirrored equal-mass pair, which
\* pulled on both and changed their velocities.
C10_Witness ==
    /\ TwoBodyUpdate
    /\ Len(calls) = 2
    /\ Mirrored(pre, bodies[1], bodies[2])
    /\ heap[bodies[1]].velocity # pre[bodies[1]].velocity
    /\ heap[bodies[1]].acceleration # VZero
    /\ TotalForce(bodies, heap, 1) # VZero

\* The CelestialBody.update call of an iteration of the second loop takes
\* the body from old to new.
EulerStep(old, new, dt) ==
    LET v == VAdd(old.velocity, VScale(old.acceleration, dt))
        p == VAdd(old.position, VScale(v, dt))
        kept == IF Len(old.trajectory) < 500 THEN old.trajectory
                ELSE Tail(old.trajectory)
    IN  /\ new.velocity = v
        /\ new.position = p
        /\ Len(new.trajectory) = Len(kept) + 1
        /\ new.trajectory[Len(new.trajectory)] = p
        /\ \A i \in 1 .. Len(kept) : new.trajectory[i] = kept[i]
        /\ new.mass = old.mass
        /\ new.name = old.name
        /\ new.acceleration = old.acceleration

\* C11: CelestialBody.update(dt) sets velocity to velocity + acceleration*dt,
\* then position to position + (the new velocity)*dt, then appends a
\* snapshot equal to the new position to trajectory; mass, name and
\* acceleration are unchanged, the snapshots of earlier calls keep their
\* values, and no other body changes.
C11_SemiImplicitEuler ==
    [][(pc = "integrate" /\ idx <= Len(bodies)) =>
          /\ EulerStep(heap[bodies[idx]], heap'[bodies[idx]], step_dt)
          /\ \A b \in BodyIds : b # bodies[idx] => heap'[b] = heap[b]]_vars

\* C11 witness: the second CelestialBody.update of an accelerated body has
\* just run: the velocity changed in the call, so the position differs from
\* the one the old velocity would give, and the snapshot of the first call
\* is still in the trajectory and differs from the new position.
C11_Witness ==
    /\ pc = "integrate"
    /\ idx = 2
    /\ Len(heap[bodies[1]].trajectory) = 2
    /\ heap[bodies[1]].acceleration # VZero
    /\ heap[bodies[1]].velocity # pre[bodies[1]].velocity
    /\ heap[bodies[1]].position
          # VAdd(pre[bodies[1]].position,
                 VScale(pre[bodies[1]].velocity, step_dt))
    /\ heap[bodies[1]].trajectory[1] = pre[bodies[1]].position
    /\ heap[bodies[1]].trajectory[2] = heap[bodies[1]].position
    /\ heap[bodies[1]].trajectory[1] # heap[bodies[1]].trajectory[2]

\* C12 as stated: every body held in the collection has strictly positive
\* mass, bodies created by add_planet_from_input from the input fields
\* included.
C12_PositiveMass ==
    \A i \in 1 .. Len(bodies) : heap[bodies[i]].mass.m > 0

\* The step is a frame of the main loop: SimulationController.update.
IsFrame == last'.op = "frame"

\* The exact sum of the float t and n times the float dt is a float.
SumRepresentable(t, dt, n) ==
    LET e == IF t.e < dt.e THEN t.e ELSE dt.e
    IN  Representable(t.m * Pow2(t.e - e) + n * dt.m * Pow2(dt.e - e), e)

RECURSIVE AddRepeated(_, _, _)
\* t + dt + ... + dt with n additions, each rounded.
AddRepeated(t, dt, n) ==
    IF n = 0 THEN t ELSE FAdd(AddRepeated(t, dt, n - 1), dt)

\* C13: a frame of a controller that is not paused calls
\* PhysicsEngine.update(dt) exactly simulation_speed times: time is advanced
\* by dt that many times (by simulation_speed * dt where the sums are exact,
\* as they are for dt = 1000.0 on doubles) and every body of the collection
\* is integrated that many times; a frame of a paused controller calls it
\* zero times and leaves time and every body's position, velocity and
\* trajectory unchanged.  A frame changes neither is_paused nor
\* simulation_speed.
C13_PauseAndSpeed ==
    [][IsFrame =>
          /\ is_paused' = is_paused
          /\ simulation_speed' = simulation_speed
          /\ bodies' = bodies
          /\ is_paused =>
                /\ time' = time
                /\ calls' = calls
                /\ \A b \in DOMAIN heap :
                      /\ heap'[b].position = heap[b].position
                      /\ heap'[b].velocity = heap[b].velocity
                      /\ heap'[b].trajectory = heap[b].trajectory
          /\ ~is_paused =>
                /\ Len(calls') = Len(calls) + simulation_speed
                /\ time' = AddRepeated(time, SimulationDt, simulation_speed)
                /\ (\A j \in 1 .. simulation_speed :
                       SumRepresentable(time, SimulationDt, j)) =>
                      time' = FAdd(time,
                                   FMul(FInt(simulation_speed), SimulationDt))
                /\ \A i \in 1 .. Len(bodies) :
                      Len(history'[bodies[i]])
                         = Len(history[bodies[i]]) + simulation_speed]_vars

\* C13 witness: a frame of the paused controller has just passed, after a
\* frame of the running controller had advanced time and moved the bodies.
C13_Witness ==
    /\ last.op = "frame"
    /\ is_paused
    /\ Len(calls) = simulation_speed
    /\ time = FMul(FInt(simulation_speed), SimulationDt)
    /\ time = last.time
    /\ Len(bodies) = 2
    /\ \A i \in 1 .. 2 :
          /\ Len(heap[bodies[i]].trajectory) = simulation_speed
          /\ heap[bodies[i]].acceleration # VZero

\* C15 as stated: one call of PhysicsEngine.update(dt) integrates every body
\* of the collection over dt a single time, from the acceleration of the
\* step, and gives its trajectory exactly one new snapshot, also when the
\* same body has been added more than once.
C15_AdvancedOnce ==
    (pc = "idle" /\ last.op = "update") =>
        \A i \in 1 .. Len(bodies) :
            LET old == pre[bodies[i]]
                new == heap[bodies[i]]
                v   == VAdd(old.velocity, VScale(new.acceleration, step_dt))
            IN  /\ new.velocity = v
                /\ new.position = VAdd(old.position, VScale(v, step_dt))
                /\ Len(new.trajectory) = Len(old.trajectory) + 1

\* The step is a MOUSEBUTTONDOWN event on the named button.
Click(button) == last'.op = "mousedown" /\ Pressed(button, last'.body)

\* After the step the controller is paused, time is 0.0 and the collection
\* holds bodies with the given names in order, each one a body that did not
\* exist before the step, unmoved.
FreshSystem(names) ==
    /\ is_paused'
    /\ time' = FZero
    /\ Len(bodies') = Len(names)
    /\ Distinct(bodies')
    /\ \A i \in 1 .. Len(names) :
          /\ bodies'[i] \notin DOMAIN heap
          /\ heap'[bodies'[i]].name = names[i]
          /\ heap'[bodies'[i]].trajectory = <<>>
          /\ heap'[bodies'[i]].acceleration = VZero

\* C16: from any controller state, pressing a preset button or Stop leaves
\* the controller paused, time at 0.0 and the collection holding exactly the
\* bodies of that system in their fixed order (5, 2 and 3 bodies for the
\* presets, Sun and Earth for Stop), none of them a body from before;
\* pressing Clear empties the collection and resets time to 0.0 and leaves
\* is_paused as it was.
C16_PresetsReplace ==
    [][/\ Click("preset_solar") =>
             FreshSystem(<<"Sun", "Mercury", "Venus", "Earth", "Mars">>)
       /\ Click("preset_binary") => FreshSystem(<<"Star A", "Star B">>)
       /\ Click("preset_three") =>
             FreshSystem(<<"Body 1", "Body 2", "Body 3">>)
       /\ Click("stop") => FreshSystem(<<"Sun", "Earth">>)
       /\ Click("clear") =>
             /\ bodies' = <<>>
             /\ time' = FZero
             /\ is_paused' = is_paused]_vars

\* C16 witness: the solar preset has just been pressed on a controller that
\* was running and had advanced time: two bodies before, five new ones now.
C16_Witness ==
    /\ last.op = "mousedown"
    /\ Pressed("preset_solar", last.body)
    /\ last.time # FZero
    /\ Len(last.bodies) = 2
    /\ \E b \in DOMAIN heap : b \in {last.bodies[1], last.bodies[2]}
                                /\ heap[b].trajectory # <<>>
    /\ Len(bodies) = 5
    /\ is_paused
    /\ time = FZero

\* The four numeric fields all parse as numbers.
AllParse(fields) ==
    \A f \in {"mass", "distance", "speed", "angle"} :
        ParseFloat(fields[f].value).ok

\* C17: pressing Add when one of the mass, distance, speed and angle fields
\* does not parse as a number adds no body: collection, bodies, time, pause
\* and speed are unchanged; when all four parse, exactly one new body, with
\* the name and the mass of the fields, is appended at the end of the
\* collection and nothing else in the engine or the controller's flags
\* changes.  The field texts stay as they were.
C17_AddFromInput ==
    [][Click("add") =>
          /\ time' = time
          /\ is_paused' = is_paused
          /\ simulation_speed' = simulation_speed
          /\ \A f \in FieldNames : input_fields'[f].value = input_fields[f].value
          /\ \A b \in DOMAIN heap : b \in DOMAIN heap' /\ heap'[b] = heap[b]
          /\ ~AllParse(input_fields) => (bodies' = bodies /\ heap' = heap)
          /\ AllParse(input_fields) =>
                /\ Len(bodies') = Len(bodies) + 1
                /\ SubSeq(bodies', 1, Len(bodies)) = bodies
                /\ bodies'[Len(bodies')] \notin DOMAIN heap
                /\ DOMAIN heap' = DOMAIN heap \cup {bodies'[Len(bodies')]}
                /\ heap'[bodies'[Len(bodies')]].name = input_fields["name"].value
                /\ heap'[bodies'[Len(bodies')]].mass
                      = ParseFloat(input_fields["mass"].value).value]_vars

\* C17 witness: Add has just been pressed with a field that does not parse
\* and nothing was added, after an earlier press with parsing fields had
\* appended a third body.
C17_Witness ==
    /\ last.op = "mousedown"
    /\ Pressed("add", last.body)
    /\ ~AllParse(input_fields)
    /\ Len(bodies) = 3
    /\ bodies = last.bodies
    /\ heap[bodies[3]].name = input_fields["name"].value
    /\ time = FZero

=============================================================================
